---- MODULE Spec2Model ----
(***************************************************************************)
(* Model of scripts/data_cleaning.py, the pronunciation-lexicon builder:   *)
(* the vocabulary extractor, the lexicon loader, the resolver, the OOV     *)
(* transcriber and the IPA -> ARPAbet transliterator convert().            *)
(*                                                                         *)
(* Text is modelled as a sequence of characters, each character a          *)
(* one-token string.  A character outside ASCII is written by its code     *)
(* point: "U+02C8" is the IPA primary-stress mark, "U+02CC" the            *)
(* secondary-stress mark, "U+026A" the small capital I, and so on.         *)
(***************************************************************************)
EXTENDS Integers, Sequences, FiniteSets, TLC

\* ------------------------------------------------------------------------
\* convert(ipa): lines 3-97
\* ------------------------------------------------------------------------

\* The if/elif chain of lines 15-92, one row per branch, in source order.
PhoneTable ==
  <<
     [ipas |-> {<<"U+0252">>, <<"U+0251">>}, phone |-> <<"A", "A">>],
     [ipas |-> {<<"U+00E6">>}, phone |-> <<"A", "E">>],
     [ipas |-> {<<"U+028C">>, <<"U+0259">>}, phone |-> <<"A", "H">>],
     [ipas |-> {<<"U+0254">>}, phone |-> <<"A", "O">>],
     [ipas |-> {<<"a", "U+028A">>}, phone |-> <<"A", "W">>],
     [ipas |-> {<<"a", "U+026A">>}, phone |-> <<"A", "Y">>],
     [ipas |-> {<<"U+025B">>}, phone |-> <<"E", "H">>],
     [ipas |-> {<<"U+025D">>, <<"U+025A">>}, phone |-> <<"E", "R">>],
     [ipas |-> {<<"e", "U+026A">>}, phone |-> <<"E", "Y">>],
     [ipas |-> {<<"U+026A">>}, phone |-> <<"I", "H">>],
     [ipas |-> {<<"i">>}, phone |-> <<"I", "Y">>],
     [ipas |-> {<<"o", "U+028A">>}, phone |-> <<"O", "W">>],
     [ipas |-> {<<"U+0254", "U+026A">>}, phone |-> <<"O", "Y">>],
     [ipas |-> {<<"U+028A">>}, phone |-> <<"U", "H">>],
     [ipas |-> {<<"u">>}, phone |-> <<"U", "W">>],
     [ipas |-> {<<"b">>}, phone |-> <<"B">>],
     [ipas |-> {<<"t", "U+0283">>, <<"t", "U+0361", "U+0283">>}, phone |-> <<"C", "H">>],
     [ipas |-> {<<"d">>}, phone |-> <<"D">>],
     [ipas |-> {<<"U+00F0">>}, phone |-> <<"D", "H">>],
     [ipas |-> {<<"f">>}, phone |-> <<"F">>],
     [ipas |-> {<<"U+0261">>}, phone |-> <<"G">>],
     [ipas |-> {<<"h">>}, phone |-> <<"H", "H">>],
     [ipas |-> {<<"d", "U+0292">>, <<"d", "U+0361", "U+0292">>}, phone |-> <<"J", "H">>],
     [ipas |-> {<<"k">>}, phone |-> <<"K">>],
     [ipas |-> {<<"l">>}, phone |-> <<"L">>],
     [ipas |-> {<<"m">>}, phone |-> <<"M">>],
     [ipas |-> {<<"n">>}, phone |-> <<"N">>],
     [ipas |-> {<<"U+014B">>}, phone |-> <<"N", "G">>],
     [ipas |-> {<<"p">>}, phone |-> <<"P">>],
     [ipas |-> {<<"U+0279">>}, phone |-> <<"R">>],
     [ipas |-> {<<"s">>}, phone |-> <<"S">>],
     [ipas |-> {<<"U+0283">>}, phone |-> <<"S", "H">>],
     [ipas |-> {<<"t">>}, phone |-> <<"T">>],
     [ipas |-> {<<"U+03B8">>}, phone |-> <<"T", "H">>],
     [ipas |-> {<<"v">>}, phone |-> <<"V">>],
     [ipas |-> {<<"w">>}, phone |-> <<"W">>],
     [ipas |-> {<<"j">>}, phone |-> <<"Y">>],
     [ipas |-> {<<"z">>}, phone |-> <<"Z">>],
     [ipas |-> {<<"U+0292">>}, phone |-> <<"Z", "H">>]
  >>

\* str.startswith(c) for a one-character prefix c (lines 6 and 9).
StartsWith(s, c) == Len(s) > 0 /\ s[1] = c

\* Line 6: the unit begins with "'" or with U+02C8.
HasPrimary(ipa) == StartsWith(ipa, "'") \/ StartsWith(ipa, "U+02C8")

\* Line 9: reached only when line 6 did not match.
HasSecondary(ipa) == ~HasPrimary(ipa) /\ StartsWith(ipa, "U+02CC")

\* Lines 7 and 10: ipa = ipa[1:] when a marker matched, else ipa as given.
StripStress(ipa) == IF HasPrimary(ipa) \/ HasSecondary(ipa) THEN Tail(ipa) ELSE ipa

\* StressAux with the secondary mark given the primary digit.
StressAuxSecondaryAsPrimary(ipa) ==
  IF HasPrimary(ipa) \/ HasSecondary(ipa) THEN <<"1", " ">> ELSE <<" ">>

\* Lines 8, 11 and 13: the suffix put after the phone code.
StressAux(ipa) ==
  IF HasPrimary(ipa) THEN <<"1", " ">>
  ELSE IF HasSecondary(ipa) THEN <<"2", " ">>
  ELSE <<" ">>

\* The rows of the chain whose test the stripped unit passes.
MatchRows(stripped) == {r \in 1..Len(PhoneTable) : stripped \in PhoneTable[r].ipas}

\* An if/elif chain takes the first branch whose test passes.
FirstRow(stripped) == CHOOSE r \in MatchRows(stripped) : \A q \in MatchRows(stripped) : r <= q

\* Line 95: the text returned when no branch matched.
UnkText == <<"<", "U", "N", "K", ">", " ">>

\* BadEntry with the unit recorded as it was passed in.
BadEntryAsPassed(ipa) == ipa

\* Line 94: what bad_phones.add() is given in the else branch.
BadEntry(ipa) == StripStress(ipa)

\* Lines 15-97: the text convert returns.
ConvertText(ipa) ==
  IF MatchRows(StripStress(ipa)) = {}
  THEN UnkText
  ELSE PhoneTable[FirstRow(StripStress(ipa))].phone \o StressAux(ipa)

\* Lines 93-94: bad_phones after convert(ipa), given bad_phones before.
ConvertBad(ipa, bad) ==
  IF MatchRows(StripStress(ipa)) = {} THEN bad \cup {BadEntry(ipa)} ELSE bad

\* ------------------------------------------------------------------------
\* Python string operations used by the script
\* ------------------------------------------------------------------------

\* The characters str.strip() removes, restricted to the ASCII ones.
Whitespace == {" ", "\t", "\n", "\r", "\f"}

RECURSIVE LStrip(_)
LStrip(s) == IF Len(s) > 0 /\ Head(s) \in Whitespace THEN LStrip(Tail(s)) ELSE s

RECURSIVE RStrip(_)
RStrip(s) ==
  IF Len(s) > 0 /\ s[Len(s)] \in Whitespace THEN RStrip(SubSeq(s, 1, Len(s) - 1)) ELSE s

\* str.strip()
Strip(s) == RStrip(LStrip(s))

\* The positions at which sep occurs in s.
Occurrences(s, sep) ==
  {k \in 1..(Len(s) - Len(sep) + 1) : SubSeq(s, k, k + Len(sep) - 1) = sep}

\* str.find(sep) + 1, or 0 when sep does not occur.
Find(s, sep) ==
  IF Occurrences(s, sep) = {} THEN 0
  ELSE CHOOSE k \in Occurrences(s, sep) : \A j \in Occurrences(s, sep) : k <= j

\* str.split(sep) for a non-empty separator: the fields between the
\* occurrences of sep, scanned left to right without overlap.
RECURSIVE Split(_, _)
Split(s, sep) ==
  IF Find(s, sep) = 0 THEN <<s>>
  ELSE <<SubSeq(s, 1, Find(s, sep) - 1)>>
       \o Split(SubSeq(s, Find(s, sep) + Len(sep), Len(s)), sep)

UpperLetters ==
  <<"A", "B", "C", "D", "E", "F", "G", "H", "I", "J", "K", "L", "M",
    "N", "O", "P", "Q", "R", "S", "T", "U", "V", "W", "X", "Y", "Z">>

LowerLetters ==
  <<"a", "b", "c", "d", "e", "f", "g", "h", "i", "j", "k", "l", "m",
    "n", "o", "p", "q", "r", "s", "t", "u", "v", "w", "x", "y", "z">>

IndexIn(c, letters) == CHOOSE k \in 1..Len(letters) : letters[k] = c

IsIn(c, letters) == \E k \in 1..Len(letters) : letters[k] = c

\* str.lower() on ASCII text
Lower(s) ==
  [k \in 1..Len(s) |->
     IF IsIn(s[k], UpperLetters) THEN LowerLetters[IndexIn(s[k], UpperLetters)] ELSE s[k]]

\* str.upper() on ASCII text
Upper(s) ==
  [k \in 1..Len(s) |->
     IF IsIn(s[k], LowerLetters) THEN UpperLetters[IndexIn(s[k], LowerLetters)] ELSE s[k]]

\* ------------------------------------------------------------------------
\* Inputs of a run and their bounds
\* ------------------------------------------------------------------------

\* The most lines a modelled logs.txt holds.
MaxLogLines == 2

\* The most lines a modelled librispeech-lexicon.txt holds.
MaxLexLines == 2

\* The most items (sentences and word-level units together) the G2P
\* routine yields in one run, over all the words it is called on.
MaxYields == 4

\* Lines of logs.txt, as readlines() returns them:
\*   'HI'      the word HI between quotes
\*   ' Uv '    the word Uv with blanks inside the quotes
\*   'UV'      a word of dont_recase
\*   ''        nothing between the quotes
\*   HI        no quote at all
LogLineSet ==
  { <<"'", "H", "I", "'", "\n">>,
    <<"'", " ", "U", "v", " ", "'", "\n">>,
    <<"'", "U", "V", "'", "\n">>,
    <<"'", "'", "\n">>,
    <<"H", "I", "\n">> }

\* Lines of librispeech-lexicon.txt:
\*   UV<2 blanks>Y UW1      double-space convention
\*   UV<tab>Y UW            tab convention, same word, other phones
\*   HI<blank><tab>HH AY    tab convention, a blank after the word
\*   an empty line
LexLineSet ==
  { <<"U", "V", " ", " ", "Y", " ", "U", "W", "1", "\n">>,
    <<"U", "V", "\t", "Y", " ", "U", "W", "\n">>,
    <<"H", "I", " ", "\t", "H", "H", " ", "A", "Y", "\n">>,
    <<"\n">> }

\* The files of at most n lines over a set of lines.
FilesOf(lines, n) == UNION {[1..k -> lines] : k \in 0..n}

\* The w.phonemes sequences the G2P routine may return for one word-level
\* unit: none; h + stressed diphthong; an unknown unit with a stress mark
\* and an empty unit; a unit with two stress marks.
G2PUnits ==
  { <<>>,
    << <<"h">>, <<"U+02C8", "a", "U+026A">> >>,
    << <<"U+02C8", "x">>, <<>> >>,
    << <<"U+02C8", "U+02C8", "t">> >> }

\* Line 128
dont_recase ==
  << <<"U", "V">>, <<"M", "V", "D">>, <<"L", "L", "D">>, <<"N", "R", "A">>,
     <<"M", "P", "S">>, <<"W", "D", "S", "U">>, <<"M", "W", "D", "D", "Y">>,
     <<"V", "C">>, <<"L", "J">>, <<"B", "B", "L">> >>

\* The units handed to convert() when it is called on its own: every key of
\* the table and two units without an entry ("" and x), each bare and behind
\* each stress mark, and one unit behind two marks.
TableKeys == UNION {PhoneTable[r].ipas : r \in 1..Len(PhoneTable)}

StressMarks == {"'", "U+02C8", "U+02CC"}

IPAUnits ==
  LET bases == TableKeys \cup {<<>>, <<"x">>}
  IN bases
     \cup {<<m>> \o b : m \in StressMarks, b \in bases}
     \cup {<<"U+02C8", "U+02C8", "t">>}

\* ------------------------------------------------------------------------
\* State
\* ------------------------------------------------------------------------

VARIABLES
  pc,            \* where the script is
  log_lines,     \* lines of logs.txt the loop of line 105 has yet to visit
  words,         \* line 99
  lex_lines,     \* the lines of the lexicon, as readlines() returned them
  lex_idx,       \* how many of them the loop of line 111 has visited
  vocab,         \* line 100: a dict, modelled as a function
  todo,          \* words the loop of line 119 has yet to visit
  still_oov,     \* line 117
  words_txt,     \* the lines written to words.txt
  oov_todo,      \* words the loop of line 131 has yet to visit
  raw,           \* the element of still_oov the loop of line 131 is at
  word,          \* the loop variable of line 131, after lines 135-136
  string,        \* line 132
  i,             \* line 133
  nsent,         \* sentences the generator of line 138 has yielded for word
  yields,        \* items the G2P routine has yielded in this run
  sent_len,      \* word-level units the current sentence has yielded
  nunits,        \* word-level units that generator has yielded for word
  heard,         \* the phonemes that generator has returned for word, in order
  flagged,       \* whether line 144 printed its message for word
  unhandled_txt, \* the lines written to unhandled.txt
  bad_phones,    \* line 3
  passed,        \* the units line 140 handed to convert()
  conv           \* argument and result of a direct call of convert()

vars ==
  <<pc, log_lines, words, lex_lines, vocab, todo, still_oov, words_txt,
    oov_todo, raw, word, string, i, nsent, yields, sent_len, nunits,
    heard, flagged, unhandled_txt, bad_phones, passed, conv, lex_idx>>

loaderVars == <<log_lines, words, lex_lines, lex_idx, vocab>>

resolverVars == <<todo, still_oov, words_txt>>

wordVars ==
  <<raw, word, string, i, nsent, yields, sent_len, nunits, heard, flagged>>

transcriberVars == <<oov_todo, unhandled_txt, bad_phones, passed>>

Init ==
  /\ pc = "start"
  /\ log_lines = <<>>
  /\ words = {}
  /\ lex_lines = <<>>
  /\ lex_idx = 0
  /\ vocab = <<>>
  /\ todo = {}
  /\ still_oov = {}
  /\ words_txt = <<>>
  /\ oov_todo = {}
  /\ raw = <<>>
  /\ word = <<>>
  /\ string = <<>>
  /\ i = 0
  /\ nsent = 0
  /\ yields = 0
  /\ sent_len = 0
  /\ nunits = 0
  /\ heard = <<>>
  /\ flagged = FALSE
  /\ unhandled_txt = <<>>
  /\ bad_phones = {}
  /\ passed = {}
  /\ conv = [called |-> FALSE, ipa |-> <<>>, text |-> <<>>]

\* ------------------------------------------------------------------------
\* Vocabulary extractor: lines 102-108
\* ------------------------------------------------------------------------

\* Lines 102-103: open logs.txt and read its lines.
ReadLogs ==
  /\ pc = "start"
  /\ \E file \in FilesOf(LogLineSet, MaxLogLines) : log_lines' = file
  /\ pc' = "extract"
  /\ UNCHANGED <<words, lex_lines, lex_idx, vocab, resolverVars, wordVars,
                 transcriberVars, conv>>

\* Line 106: the fields of line.split("'").
LogFields(line) == Split(line, <<"'">>)

\* Line 106: index -2 of a list of fewer than two fields raises IndexError.
LogLineRaises(line) == Len(LogFields(line)) < 2

\* Line 106: line.split("'")[-2].strip()
LogWord(line) == Strip(LogFields(line)[Len(LogFields(line)) - 1])

\* Lines 107-108: words after the line, given words before.
WordsAfter(line, ws) == IF Len(LogWord(line)) > 0 THEN ws \cup {LogWord(line)} ELSE ws

\* Lines 105-108: one pass of the loop body.  An uncaught IndexError ends
\* the script.
ExtractLine ==
  /\ pc = "extract"
  /\ log_lines # <<>>
  /\ IF LogLineRaises(Head(log_lines))
     THEN /\ pc' = "crashed"
          /\ UNCHANGED <<log_lines, words>>
     ELSE /\ words' = WordsAfter(Head(log_lines), words)
          /\ log_lines' = Tail(log_lines)
          /\ pc' = pc
  /\ UNCHANGED <<lex_lines, lex_idx, vocab, resolverVars, wordVars,
                 transcriberVars, conv>>

\* ------------------------------------------------------------------------
\* Lexicon loader: lines 110-115
\* ------------------------------------------------------------------------

\* Lines 110-111: the loop of line 105 is over; open the lexicon and read
\* its lines.
ReadLexicon ==
  /\ pc = "extract"
  /\ log_lines = <<>>
  /\ \E file \in FilesOf(LexLineSet, MaxLexLines) : lex_lines' = file
  /\ lex_idx' = 0
  /\ pc' = "load"
  /\ UNCHANGED <<log_lines, words, vocab, resolverVars, wordVars,
                 transcriberVars, conv>>

\* Lines 112-114: split on two blanks; with one field only, split on a tab.
LexFields(line) ==
  IF Len(Split(line, <<" ", " ">>)) = 1
  THEN Split(line, <<"\t">>)
  ELSE Split(line, <<" ", " ">>)

\* Line 115: s[1] of a one-field list raises IndexError.
LexLineRaises(line) == Len(LexFields(line)) < 2

\* Line 115: the key, s[0].
LexKey(line) == LexFields(line)[1]

\* Line 115: the value, s[1].strip().
LexValue(line) == Strip(LexFields(line)[2])

\* dict assignment d[k] = v
DictSet(d, k, v) == [x \in (DOMAIN d) \cup {k} |-> IF x = k THEN v ELSE d[x]]

\* Line 115
VocabAfter(line, voc) == DictSet(voc, LexKey(line), LexValue(line))

\* Lines 111-115: one pass of the loop body.
LoadLine ==
  /\ pc = "load"
  /\ lex_idx < Len(lex_lines)
  /\ IF LexLineRaises(lex_lines[lex_idx + 1])
     THEN /\ pc' = "crashed"
          /\ UNCHANGED <<vocab, lex_idx>>
     ELSE /\ vocab' = VocabAfter(lex_lines[lex_idx + 1], vocab)
          /\ lex_idx' = lex_idx + 1
          /\ pc' = pc
  /\ UNCHANGED <<log_lines, words, lex_lines, resolverVars, wordVars,
                 transcriberVars, conv>>

\* ------------------------------------------------------------------------
\* Lexicon resolver: lines 117-126
\* ------------------------------------------------------------------------

\* Lines 117-119: the loop of line 111 is over; words.txt is opened empty
\* and the loop over words starts.
BeginResolve ==
  /\ pc = "load"
  /\ lex_idx = Len(lex_lines)
  /\ still_oov' = {}
  /\ words_txt' = <<>>
  /\ todo' = words
  /\ pc' = "resolve"
  /\ UNCHANGED <<loaderVars, wordVars, transcriberVars, conv>>

\* Line 121 and line 147: '{}  {}\n'.format(w, phones)
FormatLine(w, phones) == w \o <<" ", " ">> \o phones \o <<"\n">>

\* Line 120
InVocab(w, voc) == w \in DOMAIN voc

\* Lines 120-121: words.txt after the word.
WordsTxtAfter(w, voc, out) ==
  IF InVocab(w, voc) THEN Append(out, FormatLine(w, voc[w])) ELSE out

\* StillOovAfter with the word added whether or not it was looked up.
StillOovAlways(w, voc, oov) == oov \cup {w}

\* Lines 120-124: still_oov after the word.
StillOovAfter(w, voc, oov) == IF InVocab(w, voc) THEN oov ELSE oov \cup {w}

\* Lines 119-124: one pass of the loop body; a set is iterated in an order
\* the script does not choose.
ResolveWord ==
  /\ pc = "resolve"
  /\ \E w \in todo :
       /\ words_txt' = WordsTxtAfter(w, vocab, words_txt)
       /\ still_oov' = StillOovAfter(w, vocab, still_oov)
       /\ todo' = todo \ {w}
  /\ UNCHANGED <<pc, loaderVars, wordVars, transcriberVars, conv>>

\* ------------------------------------------------------------------------
\* OOV transcriber: lines 128-150
\* ------------------------------------------------------------------------

\* Lines 126-131: the loop of line 119 is over; unhandled.txt is opened
\* empty and the loop over still_oov starts.
BeginTranscribe ==
  /\ pc = "resolve"
  /\ todo = {}
  /\ oov_todo' = still_oov
  /\ unhandled_txt' = <<>>
  /\ pc' = "transcribe"
  /\ UNCHANGED <<loaderVars, resolverVars, wordVars, bad_phones, passed, conv>>

\* Line 135: word in dont_recase
InDontRecase(w) == \E k \in 1..Len(dont_recase) : dont_recase[k] = w

\* Recase with the allow-list ignored.
RecaseAlways(w) == Lower(w)

\* Lines 135-136
Recase(w) == IF ~InDontRecase(w) THEN Lower(w) ELSE w

\* Lines 131-138: the next element of still_oov; string and i are reset,
\* the word is recased and sentences(word, lang="en-us") is called.
BeginWord ==
  /\ pc = "transcribe"
  /\ \E w \in oov_todo :
       /\ raw' = w
       /\ word' = Recase(w)
  /\ string' = <<>>
  /\ i' = 0
  /\ nsent' = 0
  /\ sent_len' = 0
  /\ nunits' = 0
  /\ heard' = <<>>
  /\ flagged' = FALSE
  /\ pc' = "sentences"
  /\ UNCHANGED <<loaderVars, resolverVars, transcriberVars, conv, yields>>

\* Line 138: the generator yields one more sentence.  A sentence holds at
\* least one word-level unit, so the bound leaves room for it.
NextSentence ==
  /\ pc = "sentences"
  /\ yields + 2 <= MaxYields
  /\ nsent' = nsent + 1
  /\ yields' = yields + 1
  /\ sent_len' = 0
  /\ pc' = "units"
  /\ UNCHANGED <<loaderVars, resolverVars, transcriberVars, conv,
                 raw, word, string, i, nunits, heard, flagged>>

\* Line 140-141: "".join(map(convert, phonemes))
RECURSIVE JoinConverted(_)
JoinConverted(phonemes) ==
  IF phonemes = <<>> THEN <<>>
  ELSE ConvertText(Head(phonemes)) \o JoinConverted(Tail(phonemes))

\* bad_phones after convert() has been called on each phoneme in turn.
RECURSIVE BadAfterAll(_, _)
BadAfterAll(phonemes, bad) ==
  IF phonemes = <<>> THEN bad
  ELSE BadAfterAll(Tail(phonemes), ConvertBad(Head(phonemes), bad))

\* Line 141
StringAfter(phonemes, str) == str \o JoinConverted(phonemes)

\* Line 142, as indented in the source: inside the loop of line 139.
CountAfter(n) == n + 1

\* Lines 139-142: the sentence yields one more word-level unit w, whose
\* phonemes are converted and joined onto string.
NextUnit ==
  /\ pc = "units"
  /\ yields < MaxYields
  /\ \E phonemes \in G2PUnits :
       /\ string' = StringAfter(phonemes, string)
       /\ bad_phones' = BadAfterAll(phonemes, bad_phones)
       /\ passed' = passed \cup {phonemes[k] : k \in 1..Len(phonemes)}
       /\ heard' = heard \o phonemes
  /\ i' = CountAfter(i)
  /\ yields' = yields + 1
  /\ sent_len' = sent_len + 1
  /\ nunits' = nunits + 1
  /\ UNCHANGED <<pc, loaderVars, resolverVars, conv, oov_todo, unhandled_txt,
                 raw, word, nsent, flagged>>

\* Line 139: the sentence has no further word; back to line 138.
EndSentence ==
  /\ pc = "units"
  /\ sent_len > 0
  /\ pc' = "sentences"
  /\ UNCHANGED <<loaderVars, resolverVars, transcriberVars, conv, wordVars>>

\* MultiPass with the count compared against 2.
MultiPassAboveTwo(n) == n > 2

\* Line 143
MultiPass(n) == n > 1

\* Emits with the test dropped.
EmitsAlways(str) == TRUE

\* Line 146
Emits(str) == Len(str) > 0

\* Line 147: the line written for the word.
UnhandledLine(w, str) == FormatLine(Upper(w), Strip(str))

\* Lines 143-147: the generator is exhausted; the message of line 144 and
\* the write of line 147, each under its test.
FinishWord ==
  /\ pc = "sentences"
  /\ flagged' = MultiPass(i)
  /\ unhandled_txt' =
       IF Emits(string) THEN Append(unhandled_txt, UnhandledLine(word, string))
       ELSE unhandled_txt
  /\ oov_todo' = oov_todo \ {raw}
  /\ pc' = "transcribe"
  /\ UNCHANGED <<loaderVars, resolverVars, conv, bad_phones, passed,
                 raw, word, string, i, nsent, yields, sent_len, nunits,
                 heard>>

\* Lines 149-150: the loop of line 131 is over; the script ends.
Finish ==
  /\ pc = "transcribe"
  /\ oov_todo = {}
  /\ pc' = "done"
  /\ UNCHANGED <<loaderVars, resolverVars, transcriberVars, conv, wordVars>>

Next ==
  \/ ReadLogs
  \/ ExtractLine
  \/ ReadLexicon
  \/ LoadLine
  \/ BeginResolve
  \/ ResolveWord
  \/ BeginTranscribe
  \/ BeginWord
  \/ NextSentence
  \/ NextUnit
  \/ EndSentence
  \/ FinishWord
  \/ Finish

Spec == Init /\ [][Next]_vars

\* ------------------------------------------------------------------------
\* convert() called on its own
\* ------------------------------------------------------------------------

\* One call convert(ipa), for any unit of IPAUnits.
ConvertCall ==
  /\ \E ipa \in IPAUnits :
       /\ conv' = [called |-> TRUE, ipa |-> ipa, text |-> ConvertText(ipa)]
       /\ bad_phones' = ConvertBad(ipa, bad_phones)
  /\ UNCHANGED <<pc, loaderVars, resolverVars, wordVars, oov_todo,
                 unhandled_txt, passed>>

NextConvert == ConvertCall

SpecConvert == Init /\ [][NextConvert]_vars

\* ------------------------------------------------------------------------
\* Properties of convert(), under SpecConvert
\* ------------------------------------------------------------------------

\* The unit without its leading stress mark, if it has one.
Unmarked(ipa) == IF Len(ipa) > 0 /\ ipa[1] \in StressMarks THEN Tail(ipa) ELSE ipa

\* The stress digit the unit's leading mark stands for.
StressDigit(ipa) ==
  IF Len(ipa) > 0 /\ ipa[1] \in {"'", "U+02C8"} THEN <<"1">>
  ELSE IF Len(ipa) > 0 /\ ipa[1] = "U+02CC" THEN <<"2">>
  ELSE <<>>

\* The target code of a unit that is a key of the table.
TargetCode(key) == PhoneTable[CHOOSE r \in 1..Len(PhoneTable) : key \in PhoneTable[r].ipas].phone

ConsonantCodes ==
  { <<"B">>, <<"C", "H">>, <<"D">>, <<"D", "H">>, <<"F">>, <<"G">>, <<"H", "H">>,
    <<"J", "H">>, <<"K">>, <<"L">>, <<"M">>, <<"N">>, <<"N", "G">>, <<"P">>,
    <<"R">>, <<"S">>, <<"S", "H">>, <<"T">>, <<"T", "H">>, <<"V">>, <<"W">>,
    <<"Y">>, <<"Z">>, <<"Z", "H">> }

HasStressDigit(text) == \E k \in 1..Len(text) : text[k] \in {"1", "2"}

\* C3: for every unit whose stripped form maps to a consonant code, the
\* text convert returns carries no stress digit, whatever mark the unit
\* begins with.
C3_ConsonantsCarryNoStress ==
  (/\ conv.called
   /\ Unmarked(conv.ipa) \in TableKeys
   /\ TargetCode(Unmarked(conv.ipa)) \in ConsonantCodes)
  => ~HasStressDigit(conv.text)

\* C4: for a unit with a table entry, convert returns the target code of the
\* stripped unit, then "1" after a primary mark, "2" after the secondary
\* mark and nothing otherwise, then exactly one space; for a unit without an
\* entry it returns the unknown sentinel and one space.  The three examples
\* of the specification are among the cases.
C4_ConvertFormat ==
  conv.called =>
    /\ Unmarked(conv.ipa) \in TableKeys =>
          conv.text = TargetCode(Unmarked(conv.ipa)) \o StressDigit(conv.ipa) \o <<" ">>
    /\ Unmarked(conv.ipa) \notin TableKeys =>
          conv.text = <<"<", "U", "N", "K", ">", " ">>
    /\ conv.ipa = <<"U+02C8", "e", "U+026A">> => conv.text = <<"E", "Y", "1", " ">>
    /\ conv.ipa = <<"U+02CC", "U+0259">> => conv.text = <<"A", "H", "2", " ">>
    /\ conv.ipa = <<"t">> => conv.text = <<"T", " ">>
    /\ Len(conv.text) >= 2
    /\ conv.text[Len(conv.text)] = " "
    /\ conv.text[Len(conv.text) - 1] # " "

\* A call on a vowel behind the secondary-stress mark has returned.
C4_Witness ==
  /\ conv.called
  /\ conv.ipa = <<"U+02CC", "U+0259">>
  /\ conv.text = <<"A", "H", "2", " ">>

\* ------------------------------------------------------------------------
\* Properties of the pipeline, under Spec
\* ------------------------------------------------------------------------

\* The word a line of the form WORD<2 blanks>PHONES starts with.
LineWord(line) == Split(line, <<" ", " ">>)[1]

\* The words the lines of an output file start with.
FileWords(file) == {LineWord(file[k]) : k \in 1..Len(file)}

\* The resolver loop has started: it has visited every word not in todo.
ResolverAt == pc \in {"resolve", "transcribe", "sentences", "units", "done"}

\* C1: every word the resolver loop has visited has a line in words.txt or
\* is a member of still_oov, and never both; once the loop is over that is
\* every word of the vocabulary.
C1_ResolverPartition ==
  ResolverAt =>
    /\ \A w \in words \ todo : (w \in FileWords(words_txt)) # (w \in still_oov)
    /\ pc # "resolve" => todo = {}

\* The resolver loop is over with one word resolved and another one not.
C1_Witness ==
  /\ pc = "transcribe"
  /\ \E w1 \in words, w2 \in words : w1 \in FileWords(words_txt) /\ w2 \in still_oov

\* A unit has no mapping entry when its stripped form is no key of the table.
NoEntry(ipa) == Unmarked(ipa) \notin TableKeys

\* C2, as claimed: bad_phones is exactly the set of the units handed to
\* convert that had no mapping entry, each as it was passed in, and no unit
\* that has a mapping is in it.
C2_BadPhonesAsPassed ==
  /\ bad_phones = {u \in passed : NoEntry(u)}
  /\ \A b \in bad_phones : NoEntry(b)

\* C2, amended: bad_phones is exactly the set of the stripped forms (the
\* leading stress mark removed) of the units handed to convert whose
\* stripped form has no table entry, and no key of the table is in it.
C2_BadPhonesStripped ==
  /\ bad_phones = {Unmarked(u) : u \in {v \in passed : NoEntry(v)}}
  /\ \A b \in bad_phones : b \notin TableKeys

\* convert has been handed an unknown unit behind a stress mark, the empty
\* unit, and a mapped unit.
C2_Witness ==
  /\ <<"U+02C8", "x">> \in passed
  /\ <<>> \in passed
  /\ <<"h">> \in passed
  /\ bad_phones = {<<"x">>, <<>>}

\* The table the loader is to build from the lines it has visited: key and
\* value are the trimmed first and second field, a later line overwriting
\* an earlier one.
RECURSIVE TrimmedTable(_)
TrimmedTable(lines) ==
  IF lines = <<>> THEN <<>>
  ELSE LET line == lines[Len(lines)]
           two == Split(line, <<" ", " ">>)
           f == IF Len(two) < 2 THEN Split(line, <<"\t">>) ELSE two
       IN DictSet(TrimmedTable(SubSeq(lines, 1, Len(lines) - 1)),
                  Strip(f[1]), Strip(f[2]))

\* C5: the loaded table maps each word to the phones of the last line
\* carrying it, the key being the trimmed first field and the value the
\* trimmed second field, under both delimiter conventions.
C5_LoaderTrimsKeyAndValue ==
  pc # "crashed" => vocab = TrimmedTable(SubSeq(lex_lines, 1, lex_idx))

\* C6: a malformed log or lexicon line never aborts the run.
C6_MalformedLineNeverAborts == pc # "crashed"

\* The step of lines 143-147, which ends the work on one word.
FinishStep == pc = "sentences" /\ pc' = "transcribe"

\* The transliteration of all the phonemes G2P returned for the word,
\* concatenated in their order and trimmed.
Transliteration == Strip(JoinConverted(heard))

\* C7: for each word of still_oov the transcriber appends exactly one line,
\* upper-cased word, two blanks, phone string, when the concatenated
\* transliteration of the G2P phonemes is non-empty after trimming, and
\* writes nothing otherwise; a written phone string is non-empty, has no
\* blank at either end and keeps the order of the phonemes.
C7_EmitsIffTransliterated ==
  [][FinishStep =>
       IF Transliteration # <<>>
       THEN /\ unhandled_txt' =
                 Append(unhandled_txt,
                        Upper(word) \o <<" ", " ">> \o Transliteration \o <<"\n">>)
            /\ Transliteration[1] \notin Whitespace
            /\ Transliteration[Len(Transliteration)] \notin Whitespace
       ELSE unhandled_txt' = unhandled_txt]_vars

\* A word of two phonemes has been written to unhandled.txt.
C7_Witness ==
  /\ pc = "transcribe"
  /\ heard = << <<"h">>, <<"U+02C8", "a", "U+026A">> >>
  /\ unhandled_txt # <<>>
  /\ unhandled_txt[Len(unhandled_txt)] =
       Upper(word) \o <<" ", " ", "H", "H", " ", "A", "Y", "1", "\n">>

\* The allow-list, as a set.
AllowList == {dont_recase[k] : k \in 1..Len(dont_recase)}

\* C8: the word handed to G2P is the token itself when the token is in
\* dont_recase (compared case-sensitively) and its lower-cased form when it
\* is not; whether a line is written for the word depends on the
\* transliteration alone, in the list or not.
C8_RecaseOnlyOutsideAllowList ==
  [][/\ (pc = "transcribe" /\ pc' = "sentences") =>
          /\ raw' \in AllowList => word' = raw'
          /\ raw' \notin AllowList => word' = Lower(raw')
     /\ FinishStep =>
          /\ word = (IF raw \in AllowList THEN raw ELSE Lower(raw))
          /\ (unhandled_txt' # unhandled_txt) <=> (Transliteration # <<>>)]_vars

\* G2P has been called on UV unchanged, and a line was written for it.
C8_Witness ==
  /\ pc = "transcribe"
  /\ raw = <<"U", "V">>
  /\ word = <<"U", "V">>
  /\ unhandled_txt # <<>>
  /\ LineWord(unhandled_txt[Len(unhandled_txt)]) = <<"U", "V">>

\* The loop of line 131 is between two words or over.
BetweenWords == pc \in {"transcribe", "done"}

\* C9, as claimed: the message is printed for a word exactly when G2P
\* produced more than one sentence-level pass for it.
C9_FlaggedIffManySentences == BetweenWords => (flagged <=> nsent > 1)

\* C9, amended: the message is printed for a word exactly when G2P produced
\* more than one word-level unit for it, over all its sentence-level passes;
\* a flagged word whose transliteration is not empty is still written.
C9_FlaggedIffManyUnits ==
  BetweenWords =>
    /\ flagged <=> nunits > 1
    /\ (flagged /\ Transliteration # <<>>) =>
         /\ unhandled_txt # <<>>
         /\ unhandled_txt[Len(unhandled_txt)] =
              Upper(word) \o <<" ", " ">> \o Transliteration \o <<"\n">>

\* A word with one sentence-level pass of two word-level units was flagged
\* and written.
C9_Witness ==
  /\ pc = "transcribe"
  /\ flagged
  /\ nsent = 1
  /\ nunits = 2
  /\ Transliteration # <<>>

\* C10: no word that starts a line of words.txt starts a line of
\* unhandled.txt.
C10_OutputsDisjoint ==
  pc = "done" => FileWords(words_txt) \cap FileWords(unhandled_txt) = {}

====
